---- MODULE Spec2Model ----
(***************************************************************************)
(* Model of script.py: setup_safeguard_system, verify_admin_rights and the *)
(* __main__ block.  One action per await of the coroutine (remote call or  *)
(* sleep), each including the except clauses an exception of that call     *)
(* runs through before the coroutine next suspends (in the finally block). *)
(*                                                                         *)
(* Exceptions are records [type, msg, seconds]; msg is the sequence of     *)
(* text segments str(e) is built from, so that an f-string wrapping        *)
(* f"prefix: {str(e)}" is <<prefix>> \o Str(e).                            *)
(***************************************************************************)
EXTENDS Integers, Sequences, FiniteSets, TLC

\* ---------------------------------------------------------------- bounds
MaxArrivals == 1        \* messages other parties post during one sleep
MaxFloodSeconds == 2    \* largest wait a FloodWaitError carries

\* ------------------------------------------------------ program constants
Retries == 3            \* retries = 3
SleepSeconds == 2       \* asyncio.sleep(2)

BotName == "SafeguardRobot"
SetupCommand == <<"/setup@", BotName>>      \* "/setup@SafeguardRobot"

\* --------------------------------------------------------------- inputs
Usernames == {"myportal", "portal2"}
GroupTitles == {"Guard Group"}
ChannelTitles == {"Guard Channel"}

VARIABLES
    pc,               \* position of the coroutine / the __main__ block
    public_username, group_title, channel_title,   \* arguments of the run
    client,           \* "None" or "client"
    calls,            \* remote calls issued so far, with what each returned
    log,              \* entries written through logging.info / logging.error
    printed,          \* lines printed to the operator
    exc,              \* the exception in flight (NoExc when none)
    raised,           \* the exception that left the try statement, if any
    messages,         \* messages of the private group, oldest first
    retries, setup_message,
    clock,            \* seconds slept so far
    checks,           \* each check of the latest message: when, and what it saw
    forwarded,        \* messages forwarded to the public channel
    private_invite    \* exported invite links

vars == <<pc, public_username, group_title, channel_title, client, calls, log,
          printed, exc, raised, messages, retries, setup_message, clock, checks,
          forwarded, private_invite>>

\* ------------------------------------------------------------ exceptions
NoExc == [type |-> "None", msg |-> <<>>, seconds |-> 0]
NoMessage == [id |-> 0, author |-> "none", text |-> <<>>]

SafeguardSetupError(m) == [type |-> "SafeguardSetupError", msg |-> m, seconds |-> 0]

\* An exception of the client library: FloodWaitError carries .seconds.
LibError(t, s) ==
    IF t = "FloodWaitError"
    THEN [type |-> t, msg |-> <<"A wait of", ToString(s), "seconds is required">>, seconds |-> s]
    ELSE [type |-> t, msg |-> <<t>>, seconds |-> 0]

Str(e) == e.msg

GenericFaults == {"FloodWaitError", "RPCError"}
FloodSeconds == 1..MaxFloodSeconds

\* the seconds a fault of type t can carry
SecondsOf(t) == IF t = "FloodWaitError" THEN FloodSeconds ELSE {0}

Info(m) == [level |-> "INFO", msg |-> m]
Error(m) == [level |-> "ERROR", msg |-> m]

Call(n, r, s) == [name |-> n, res |-> r, seconds |-> s]

\* ----------------------------------------------- "x in text" on segments
Contains(text, needle) == \E i \in 1..Len(text) : text[i] = needle

\* ------------------------------------------------------- except clauses
\* except Exception as e  (step 1)
GroupExcept(e) == SafeguardSetupError(<<"Failed to create private group">> \o Str(e))

\* except Exception as e  (step 2)
ChannelExcept(e) == SafeguardSetupError(<<"Failed to create public channel">> \o Str(e))

\* except UsernameOccupiedError / except Exception  (step 3)
UsernameExcept(e) ==
    IF e.type = "UsernameOccupiedError"
    THEN SafeguardSetupError(<<"Username", public_username, "is already taken">>)
    ELSE SafeguardSetupError(<<"Failed to set username">> \o Str(e))

\* the except clauses of verify_admin_rights
VerifyExcept(e) ==
    IF e.type = "UserNotParticipantError"
    THEN SafeguardSetupError(<<"Safeguard bot is not in the channel/group">>)
    ELSE SafeguardSetupError(<<"Error verifying admin rights">> \o Str(e))

\* verify_admin_rights: `outcome` is what GetParticipantRequest did: it
\* returned an admin record ("admin"), a non-admin record ("member"), or
\* raised the library error `outcome` (carrying s seconds).  The result is
\* the exception the function raises, NoExc when it returns True.  The raise
\* for a non-admin record sits inside the try block, so the function's own
\* except clauses handle it like any other exception.
verify_admin_rights(outcome, s) ==
    IF outcome = "admin" THEN NoExc
    ELSE IF outcome = "member"
    THEN VerifyExcept(SafeguardSetupError(<<"Safeguard bot is not an admin">>))
    ELSE VerifyExcept(LibError(outcome, s))

\* except ChatAdminRequiredError / AdminsTooMuchError / Exception  (step 4)
BotExcept(e) ==
    IF e.type = "ChatAdminRequiredError"
    THEN SafeguardSetupError(<<"You don't have sufficient rights to add admins">>)
    ELSE IF e.type = "AdminsTooMuchError"
    THEN SafeguardSetupError(<<"This channel/group has too many admins already">>)
    ELSE SafeguardSetupError(<<"Failed to set up Safeguard bot">> \o Str(e))

\* except Exception as e  (step 5)
RelayExcept(e) == SafeguardSetupError(<<"Failed during setup message handling">> \o Str(e))

\* except Exception as e  (step 6)
InviteExcept(e) == SafeguardSetupError(<<"Failed to generate invite links">> \o Str(e))

\* the top-level except clauses of setup_safeguard_system: what is logged
TopLog(e) ==
    IF e.type = "FloodWaitError"
    THEN Error(<<"Hit rate limit. Please wait", ToString(e.seconds), "seconds">>)
    ELSE Error(<<"Unexpected error">> \o Str(e))

\* ... and what leaves the coroutine
TopExcept(e) ==
    IF e.type = "FloodWaitError"
    THEN SafeguardSetupError(<<"Rate limit hit. Please wait", ToString(e.seconds),
                               "seconds before trying again">>)
    ELSE e

\* An exception e reaches the top-level try of setup_safeguard_system after
\* the entries lg were logged: it is logged, (re-)raised, and the coroutine
\* goes on to the finally block.
Raise(e, lg) ==
    /\ log' = Append(lg, TopLog(e))
    /\ exc' = TopExcept(e)
    /\ raised' = TopExcept(e)
    /\ pc' = "finally"

Init ==
    /\ pc = "construct"
    /\ public_username \in Usernames
    /\ group_title \in GroupTitles
    /\ channel_title \in ChannelTitles
    /\ client = "None"
    /\ calls = <<>>
    /\ log = <<>>
    /\ printed = <<>>
    /\ exc = NoExc
    /\ raised = NoExc
    /\ messages = <<>>
    /\ retries = 0
    /\ setup_message = NoMessage
    /\ clock = 0
    /\ checks = <<>>
    /\ forwarded = <<>>
    /\ private_invite = <<>>

\* client = TelegramClient('session_name', api_id, api_hash): the constructor
\* returns, or raises (int(api_id) of a non-numeric id, an empty hash) with
\* client still None.
Construct ==
    /\ pc = "construct"
    /\ \E ok \in BOOLEAN :
        IF ok
        THEN /\ client' = "client"
             /\ pc' = "start"
             /\ UNCHANGED <<log, exc, raised>>
        ELSE /\ client' = "None"
             /\ Raise(LibError("ValueError", 0), log)
    /\ UNCHANGED <<public_username, group_title, channel_title, calls, printed,
                   messages, retries, setup_message, clock, checks, forwarded,
                   private_invite>>

\* await client.start()
Start ==
    /\ pc = "start"
    /\ \E r \in {"ok", "FloodWaitError", "ConnectionError"} : \E s \in SecondsOf(r) :
        /\ calls' = Append(calls, Call("start", r, s))
        /\ IF r = "ok"
           THEN pc' = "authorize" /\ UNCHANGED <<log, exc, raised>>
           ELSE Raise(LibError(r, s), log)
    /\ UNCHANGED <<public_username, group_title, channel_title, client, printed,
                   messages, retries, setup_message, clock, checks, forwarded,
                   private_invite>>

\* if not await client.is_user_authorized(): raise ...; logging.info(...)
Authorize ==
    /\ pc = "authorize"
    /\ \E r \in {"true", "false"} \cup GenericFaults : \E s \in SecondsOf(r) :
        /\ calls' = Append(calls, Call("is_user_authorized", r, s))
        /\ IF r = "true"
           THEN /\ log' = Append(log, Info(<<"Starting Safeguard setup process">>))
                /\ pc' = "create_group"
                /\ UNCHANGED <<exc, raised>>
           ELSE IF r = "false"
           THEN Raise(SafeguardSetupError(<<"User not authorized. Please run the script with an authorized session.">>), log)
           ELSE Raise(LibError(r, s), log)
    /\ UNCHANGED <<public_username, group_title, channel_title, client, printed,
                   messages, retries, setup_message, clock, checks, forwarded,
                   private_invite>>

\* 1. Create private group
CreateGroup ==
    /\ pc = "create_group"
    /\ \E r \in {"ok"} \cup GenericFaults : \E s \in SecondsOf(r) :
        LET lg == Append(log, Info(<<"Creating private group...">>)) IN
        /\ calls' = Append(calls, Call("create_group", r, s))
        /\ IF r = "ok"
           THEN /\ log' = Append(lg, Info(<<"Private group created", group_title>>))
                /\ pc' = "create_channel"
                /\ UNCHANGED <<exc, raised>>
           ELSE Raise(GroupExcept(LibError(r, s)), lg)
    /\ UNCHANGED <<public_username, group_title, channel_title, client, printed,
                   messages, retries, setup_message, clock, checks, forwarded,
                   private_invite>>

\* CreateChannel with an except clause that logs and does not raise.
CreateChannelSwallow ==
    /\ pc = "create_channel"
    /\ \E r \in {"ok"} \cup GenericFaults : \E s \in SecondsOf(r) :
        LET lg == Append(log, Info(<<"Creating public channel...">>)) IN
        /\ calls' = Append(calls, Call("create_channel", r, s))
        /\ log' = IF r = "ok"
                  THEN Append(lg, Info(<<"Public channel created", channel_title>>))
                  ELSE Append(lg, Error(Str(ChannelExcept(LibError(r, s)))))
        /\ pc' = "set_username"
        /\ UNCHANGED <<exc, raised>>
    /\ UNCHANGED <<public_username, group_title, channel_title, client, printed,
                   messages, retries, setup_message, clock, checks, forwarded,
                   private_invite>>

\* 2. Create public channel
CreateChannel ==
    /\ pc = "create_channel"
    /\ \E r \in {"ok"} \cup GenericFaults : \E s \in SecondsOf(r) :
        LET lg == Append(log, Info(<<"Creating public channel...">>)) IN
        /\ calls' = Append(calls, Call("create_channel", r, s))
        /\ IF r = "ok"
           THEN /\ log' = Append(lg, Info(<<"Public channel created", channel_title>>))
                /\ pc' = "set_username"
                /\ UNCHANGED <<exc, raised>>
           ELSE Raise(ChannelExcept(LibError(r, s)), lg)
    /\ UNCHANGED <<public_username, group_title, channel_title, client, printed,
                   messages, retries, setup_message, clock, checks, forwarded,
                   private_invite>>

\* 3. Set username for public channel
SetUsername ==
    /\ pc = "set_username"
    /\ \E r \in {"ok", "UsernameOccupiedError"} \cup GenericFaults : \E s \in SecondsOf(r) :
        /\ calls' = Append(calls, Call("set_username", r, s))
        /\ IF r = "ok"
           THEN /\ log' = Append(log, Info(<<"Username set for public channel", public_username>>))
                /\ pc' = "get_bot"
                /\ UNCHANGED <<exc, raised>>
           ELSE Raise(UsernameExcept(LibError(r, s)), log)
    /\ UNCHANGED <<public_username, group_title, channel_title, client, printed,
                   messages, retries, setup_message, clock, checks, forwarded,
                   private_invite>>

\* 4. safeguard_bot = await client.get_input_entity("@SafeguardRobot")
GetBot ==
    /\ pc = "get_bot"
    /\ \E r \in {"ok", "ValueError"} \cup GenericFaults : \E s \in SecondsOf(r) :
        /\ calls' = Append(calls, Call("get_input_entity", r, s))
        /\ IF r = "ok"
           THEN pc' = "grant_group" /\ UNCHANGED <<log, exc, raised>>
           ELSE Raise(BotExcept(LibError(r, s)), log)
    /\ UNCHANGED <<public_username, group_title, channel_title, client, printed,
                   messages, retries, setup_message, clock, checks, forwarded,
                   private_invite>>

EditAdminFaults == {"ChatAdminRequiredError", "AdminsTooMuchError"} \cup GenericFaults
GetParticipantFaults == {"UserNotParticipantError", "ChatAdminRequiredError"} \cup GenericFaults

\* await client(EditAdminRequest(channel=entity, ...)) at position `at`
EditAdmin(at, name, next) ==
    /\ pc = at
    /\ \E r \in {"ok"} \cup EditAdminFaults : \E s \in SecondsOf(r) :
        /\ calls' = Append(calls, Call(name, r, s))
        /\ IF r = "ok"
           THEN pc' = next /\ UNCHANGED <<log, exc, raised>>
           ELSE Raise(BotExcept(LibError(r, s)), log)
    /\ UNCHANGED <<public_username, group_title, channel_title, client, printed,
                   messages, retries, setup_message, clock, checks, forwarded,
                   private_invite>>

\* await verify_admin_rights(client, entity, safeguard_bot); logging.info(...)
VerifyAdmin(at, name, next, entry) ==
    /\ pc = at
    /\ \E r \in {"admin", "member"} \cup GetParticipantFaults : \E s \in SecondsOf(r) :
        LET e == verify_admin_rights(r, s) IN
        /\ calls' = Append(calls, Call(name, r, s))
        /\ IF e = NoExc
           THEN /\ log' = Append(log, Info(entry))
                /\ pc' = next
                /\ UNCHANGED <<exc, raised>>
           ELSE Raise(BotExcept(e), log)
    /\ UNCHANGED <<public_username, group_title, channel_title, client, printed,
                   messages, retries, setup_message, clock, checks, forwarded,
                   private_invite>>

GrantGroup == EditAdmin("grant_group", "edit_admin_group", "verify_group")

VerifyGroup ==
    VerifyAdmin("verify_group", "get_participant_group", "grant_channel",
                <<"Safeguard bot added as admin to private group">>)

GrantChannel == EditAdmin("grant_channel", "edit_admin_channel", "verify_channel")

VerifyChannel ==
    VerifyAdmin("verify_channel", "get_participant_channel", "send_setup",
                <<"Safeguard bot added as admin to public channel">>)

\* ------------------------------------------------- the private group
\* What another party can post to the group while the coroutine sleeps.
Arrivals ==
    { [author |-> "bot",   text |-> <<"Welcome to", BotName, "setup">>],
      [author |-> "bot",   text |-> <<"Click below to verify">>],
      [author |-> "other", text |-> <<"hello">>],
      [author |-> "other", text |-> <<"@", BotName, "help">>] }

ArrivalSeqs == UNION { [1..n -> Arrivals] : n \in 0..MaxArrivals }

\* msgs with a message of `author` and `text` posted; ids count from 1
Post(msgs, author, text) ==
    Append(msgs, [id |-> Len(msgs) + 1, author |-> author, text |-> text])

RECURSIVE PostAll(_, _)
PostAll(msgs, arr) ==
    IF arr = <<>> THEN msgs
    ELSE PostAll(Post(msgs, Head(arr).author, Head(arr).text), Tail(arr))

\* client.iter_messages(entity, limit=1): the most recent message only
Latest(msgs) == msgs[Len(msgs)]

\* 5. await client.send_message(private_group_entity, "/setup@SafeguardRobot")
\*    logging.info(...); retries = 3; setup_message = None
SendSetup ==
    /\ pc = "send_setup"
    /\ \E r \in {"ok"} \cup GenericFaults : \E s \in SecondsOf(r) :
        /\ calls' = Append(calls, Call("send_message", r, s))
        /\ IF r = "ok"
           THEN /\ messages' = Post(messages, "self", SetupCommand)
                /\ log' = Append(log, Info(<<"Setup command sent to private group">>))
                /\ retries' = Retries
                /\ setup_message' = NoMessage
                /\ pc' = "sleep"
                /\ UNCHANGED <<exc, raised>>
           ELSE /\ Raise(RelayExcept(LibError(r, s)), log)
                /\ UNCHANGED <<messages, retries, setup_message>>
    /\ UNCHANGED <<public_username, group_title, channel_title, client, printed,
                   clock, checks, forwarded, private_invite>>

\* while retries > 0: await asyncio.sleep(2) -- the coroutine is suspended
\* for SleepSeconds while other parties post to the group.
Sleep ==
    /\ pc = "sleep"
    /\ retries > 0
    /\ \E arr \in ArrivalSeqs : messages' = PostAll(messages, arr)
    /\ clock' = clock + SleepSeconds
    /\ pc' = "poll"
    /\ UNCHANGED <<public_username, group_title, channel_title, client, calls,
                   log, printed, exc, raised, retries, setup_message, checks,
                   forwarded, private_invite>>

\* The rest of the loop body: request the latest message, keep it when its
\* text contains the bot's name, else count the retry down; with the retries
\* used up, `if not setup_message: raise ...` inside the try block of step 5.
Poll ==
    /\ pc = "poll"
    /\ \E r \in {"ok"} \cup GenericFaults : \E s \in SecondsOf(r) :
        /\ calls' = Append(calls, Call("iter_messages", r, s))
        /\ IF r # "ok"
           THEN /\ Raise(RelayExcept(LibError(r, s)), log)
                /\ UNCHANGED <<retries, setup_message, checks>>
           ELSE /\ checks' = Append(checks, [at |-> clock, seen |-> Latest(messages)])
                /\ IF Contains(Latest(messages).text, BotName)
                   THEN /\ setup_message' = Latest(messages)
                        /\ pc' = "forward"
                        /\ UNCHANGED <<retries, log, exc, raised>>
                   ELSE /\ retries' = retries - 1
                        /\ UNCHANGED setup_message
                        /\ IF retries - 1 > 0
                           THEN pc' = "sleep" /\ UNCHANGED <<log, exc, raised>>
                           ELSE Raise(RelayExcept(SafeguardSetupError(
                                    <<"Failed to get setup message from Safeguard bot">>)), log)
    /\ UNCHANGED <<public_username, group_title, channel_title, client, printed,
                   messages, clock, forwarded, private_invite>>

\* Forward without its logging.info line.
ForwardNoLog ==
    /\ pc = "forward"
    /\ \E r \in {"ok"} \cup GenericFaults : \E s \in SecondsOf(r) :
        /\ calls' = Append(calls, Call("forward_to", r, s))
        /\ IF r = "ok"
           THEN /\ forwarded' = Append(forwarded, setup_message)
                /\ pc' = "export"
                /\ UNCHANGED <<exc, raised, log>>
           ELSE /\ Raise(RelayExcept(LibError(r, s)), log)
                /\ UNCHANGED forwarded
    /\ UNCHANGED <<public_username, group_title, channel_title, client, printed,
                   messages, retries, setup_message, clock, checks, private_invite>>

\* await setup_message.forward_to(channel_entity); logging.info(...)
Forward ==
    /\ pc = "forward"
    /\ \E r \in {"ok"} \cup GenericFaults : \E s \in SecondsOf(r) :
        /\ calls' = Append(calls, Call("forward_to", r, s))
        /\ IF r = "ok"
           THEN /\ forwarded' = Append(forwarded, setup_message)
                /\ log' = Append(log, Info(<<"Setup message forwarded to public channel">>))
                /\ pc' = "export"
                /\ UNCHANGED <<exc, raised>>
           ELSE /\ Raise(RelayExcept(LibError(r, s)), log)
                /\ UNCHANGED forwarded
    /\ UNCHANGED <<public_username, group_title, channel_title, client, printed,
                   messages, retries, setup_message, clock, checks, private_invite>>

InviteLink == "https://t.me/+invite"

\* the completion report printed after the export
CompletionReport ==
    << <<"=== SETUP COMPLETED SUCCESSFULLY ===">>,
       <<"Public Channel", public_username>>,
       <<"Private Group Link", InviteLink>>,
       <<"Next Steps:">>,
       <<"1. Visit your public channel to verify the setup">>,
       <<"2. Configure Safeguard settings using the inline buttons">>,
       <<"3. Test the verification system">>,
       <<"Check the log file for detailed setup information">> >>

\* 6. private_invite = await client(ExportChatInviteRequest(...)); report
Export ==
    /\ pc = "export"
    /\ \E r \in {"ok"} \cup GenericFaults : \E s \in SecondsOf(r) :
        /\ calls' = Append(calls, Call("export_invite", r, s))
        /\ IF r = "ok"
           THEN /\ private_invite' = Append(private_invite, InviteLink)
                /\ log' = Append(log, Info(<<"Setup completed successfully!">>))
                /\ printed' = printed \o CompletionReport
                /\ pc' = "finally"
                /\ UNCHANGED <<exc, raised>>
           ELSE /\ Raise(InviteExcept(LibError(r, s)), log)
                /\ UNCHANGED <<private_invite, printed>>
    /\ UNCHANGED <<public_username, group_title, channel_title, client,
                   messages, retries, setup_message, clock, checks, forwarded>>

\* what `await client.disconnect()` can do
DisconnectOutcomes == {"ok", "ConnectionError"}

\* The disconnect as the last statement of the try block instead of in a
\* finally block: reached only when nothing was raised.
FinallyOnSuccess ==
    /\ pc = "finally"
    /\ \E r \in DisconnectOutcomes :
        IF client # "None" /\ exc = NoExc
        THEN /\ calls' = Append(calls, Call("disconnect", r, 0))
             /\ exc' = IF r = "ok" THEN exc ELSE LibError(r, 0)
        ELSE UNCHANGED <<calls, exc>>
    /\ pc' = "main"
    /\ UNCHANGED <<public_username, group_title, channel_title, client, log,
                   printed, raised, messages, retries, setup_message, clock,
                   checks, forwarded, private_invite>>

\* finally: if client: await client.disconnect()
\* No handler surrounds the call: an exception of disconnect leaves the
\* coroutine in place of the one in flight (or of the normal return), and
\* nothing is logged here.
Finally ==
    /\ pc = "finally"
    /\ \E r \in DisconnectOutcomes :
        IF client # "None"
        THEN /\ calls' = Append(calls, Call("disconnect", r, 0))
             /\ exc' = IF r = "ok" THEN exc ELSE LibError(r, 0)
        ELSE UNCHANGED <<calls, exc>>
    /\ pc' = "main"
    /\ UNCHANGED <<public_username, group_title, channel_title, client, log,
                   printed, raised, messages, retries, setup_message, clock,
                   checks, forwarded, private_invite>>

\* __main__: asyncio.run(...) returned, or raised into one of the two
\* except clauses, each of which prints and logs.
Main ==
    /\ pc = "main"
    /\ IF exc = NoExc
       THEN UNCHANGED <<printed, log>>
       ELSE IF exc.type = "SafeguardSetupError"
       THEN /\ printed' = Append(printed, <<"Error during setup">> \o Str(exc))
            /\ log' = Append(log, Error(<<"Setup error">> \o Str(exc)))
       ELSE /\ printed' = Append(printed, <<"Unexpected error">> \o Str(exc))
            /\ log' = Append(log, Error(<<"Unexpected error">> \o Str(exc)))
    /\ pc' = "done"
    /\ UNCHANGED <<public_username, group_title, channel_title, client, calls,
                   exc, raised, messages, retries, setup_message, clock, checks,
                   forwarded, private_invite>>

Next ==
    \/ Construct \/ Start \/ Authorize \/ CreateGroup \/ CreateChannel
    \/ SetUsername \/ GetBot \/ GrantGroup \/ VerifyGroup \/ GrantChannel
    \/ VerifyChannel \/ SendSetup \/ Sleep \/ Poll \/ Forward \/ Export \/ Finally
    \/ Main

Spec == Init /\ [][Next]_vars


\* ------------------------------------------------------------------------
\* Vocabulary of the properties
\* ------------------------------------------------------------------------
Names(cs) == [i \in 1..Len(cs) |-> cs[i].name]

IsPrefix(a, b) == Len(a) <= Len(b) /\ \A i \in 1..Len(a) : a[i] = b[i]

IsStep(c) == c.name # "disconnect"

\* the remote calls of the steps (everything but the release)
StepCalls == SelectSeq(calls, IsStep)

Disconnects == Cardinality({i \in 1..Len(calls) : calls[i].name = "disconnect"})

\* the remote calls of a complete run that polls k times
Order(k) ==
    <<"start", "is_user_authorized", "create_group", "create_channel",
      "set_username", "get_input_entity", "edit_admin_group",
      "get_participant_group", "edit_admin_channel", "get_participant_channel",
      "send_message">>
    \o [i \in 1..k |-> "iter_messages"]
    \o <<"forward_to", "export_invite">>

Returned == {"ok", "true", "admin"}

Called(n) == \E i \in 1..Len(calls) : calls[i].name = n

\* The error kind an exception is reported as: the category its message
\* opens with.
Kind(e) ==
    IF e = NoExc THEN "None"
    ELSE IF e.type # "SafeguardSetupError" \/ e.msg = <<>> THEN "Unexpected"
    ELSE LET h == Head(e.msg) IN
         CASE h = "Failed to create private group" -> "GroupCreationFailed"
           [] h = "Failed to create public channel" -> "ChannelCreationFailed"
           [] h = "Username" -> "UsernameTaken"
           [] h = "Failed to set username" -> "UsernameAssignmentFailed"
           [] h = "Safeguard bot is not in the channel/group" -> "BotNotMember"
           [] h = "Safeguard bot is not an admin" -> "BotNotAdmin"
           [] h = "Error verifying admin rights" -> "VerificationError"
           [] h = "You don't have sufficient rights to add admins" -> "InsufficientRights"
           [] h = "This channel/group has too many admins already" -> "TooManyAdmins"
           [] h = "Failed to set up Safeguard bot" -> "AdminGrantFailed"
           [] h = "Failed to get setup message from Safeguard bot" -> "SetupMessageNotReceived"
           [] h = "Failed during setup message handling" -> "RelayFailed"
           [] h = "Failed to generate invite links" -> "InviteExportFailed"
           [] h = "Rate limit hit. Please wait" -> "RateLimited"
           [] h = "User not authorized. Please run the script with an authorized session." -> "NotAuthorized"
           [] OTHER -> "Unexpected"

\* the coroutine has been left
Ended == pc \in {"main", "done"}

\* the try statement has been left by an exception
Aborted == pc \in {"finally", "main", "done"} /\ raised # NoExc

DisconnectRaised ==
    \E i \in 1..Len(calls) : calls[i].name = "disconnect" /\ calls[i].res # "ok"

\* e has an ERROR entry of its own in the log
Logged(e) ==
    \E i \in 1..Len(log) :
        /\ log[i].level = "ERROR"
        /\ \/ log[i].msg = <<"Unexpected error">> \o Str(e)
           \/ log[i].msg = <<"Setup error">> \o Str(e)
           \/ /\ Head(e.msg) = "Rate limit hit. Please wait"
              /\ log[i].msg = <<"Hit rate limit. Please wait", e.msg[2], "seconds">>

\* e's message has been printed to the operator
Printed(e) ==
    \E j \in 1..Len(printed) :
        \/ printed[j] = <<"Error during setup">> \o Str(e)
        \/ printed[j] = <<"Unexpected error">> \o Str(e)

InfoCount == Cardinality({i \in 1..Len(log) : log[i].level = "INFO"})
ErrorCount == Cardinality({i \in 1..Len(log) : log[i].level = "ERROR"})

Matches(m) == Contains(m.text, BotName)

\* C1: the remote calls of a run are a prefix of the fixed order (the poll
\* repeated at most Retries times), every call but the last one returned
\* successfully, and the forward is only issued with a setup message found.
C1_FixedOrder ==
    /\ \E k \in 1..Retries : IsPrefix(Names(StepCalls), Order(k))
    /\ \A i \in 1..(Len(StepCalls) - 1) : StepCalls[i].res \in Returned
    /\ Called("forward_to") => setup_message # NoMessage

C1_Witness ==
    /\ pc = "done"
    /\ Len(StepCalls) = 8
    /\ StepCalls[8].name = "get_participant_group"
    /\ StepCalls[8].res = "member"

\* C2 as stated: every run that has ended released the session exactly once,
\* and the release is the last remote call.
C2_ReleasedOncePerRun ==
    /\ Disconnects <= 1
    /\ Ended => Disconnects = 1
    /\ \A i \in 1..Len(calls) : calls[i].name = "disconnect" => i = Len(calls)

\* C2 amended: a run whose client was constructed releases the session
\* exactly once, by the time the coroutine is left and not before its last
\* step; a run whose constructor raised never calls disconnect; no remote
\* call follows the release.
C2_ReleasedOnceIfConstructed ==
    /\ Disconnects <= 1
    /\ Ended => Disconnects = (IF client = "client" THEN 1 ELSE 0)
    /\ ~Ended => Disconnects = 0
    /\ \A i \in 1..Len(calls) : calls[i].name = "disconnect" => i = Len(calls)

C2_Witness ==
    /\ pc = "done"
    /\ client = "client"
    /\ raised # NoExc
    /\ Len(calls) = 2
    /\ calls[1].res = "ConnectionError"
    /\ calls[2].name = "disconnect"

\* C3: at most Retries checks, SleepSeconds apart, none after the first
\* match; and with Retries checks and no match the try statement is left
\* with the kind SetupMessageNotReceived and nothing forwarded.
C3_PollBudget ==
    /\ Len(checks) <= Retries
    /\ \A i \in 2..Len(checks) : checks[i].at - checks[i-1].at = SleepSeconds
    /\ \A i \in 1..(Len(checks) - 1) : ~Matches(checks[i].seen)
    /\ (Aborted /\ Len(checks) = Retries /\ ~Matches(checks[Retries].seen))
         => /\ Kind(raised) = "SetupMessageNotReceived"
            /\ forwarded = <<>>
            /\ ~Called("forward_to")

\* C4: a non-admin participant record makes the run fail with BotNotAdmin,
\* an absent bot with BotNotMember.
C4_VerifyKinds ==
    Aborted => \A i \in 1..Len(calls) :
        (calls[i].name \in {"get_participant_group", "get_participant_channel"})
          => /\ calls[i].res = "member" => Kind(raised) = "BotNotAdmin"
             /\ calls[i].res = "UserNotParticipantError" => Kind(raised) = "BotNotMember"

UsernameOccupied ==
    \E i \in 1..Len(calls) :
        calls[i].name = "set_username" /\ calls[i].res = "UsernameOccupiedError"

\* C5 as stated: an occupied username ends the run at the username step; the
\* run yields the kind UsernameTaken, makes no bot lookup or admin call, and
\* releases the session.
C5_UsernameTaken ==
    UsernameOccupied
      => /\ pc \in {"finally", "main", "done"}
         /\ StepCalls[Len(StepCalls)].name = "set_username"
         /\ ~Called("get_input_entity")
         /\ ~Called("edit_admin_group") /\ ~Called("edit_admin_channel")
         /\ ~Called("get_participant_group") /\ ~Called("get_participant_channel")
         /\ Ended => Disconnects = 1
         /\ Ended => Kind(exc) = "UsernameTaken"

\* What holds of C5: UsernameTaken is what the username step yields, and
\* what the run yields when disconnect returns; when disconnect raises, its
\* exception is what the run yields.
C5_UsernameTakenUnlessTeardownFails ==
    UsernameOccupied
      => /\ pc \in {"finally", "main", "done"}
         /\ StepCalls[Len(StepCalls)].name = "set_username"
         /\ ~Called("get_input_entity")
         /\ ~Called("edit_admin_group") /\ ~Called("edit_admin_channel")
         /\ ~Called("get_participant_group") /\ ~Called("get_participant_channel")
         /\ Ended => Disconnects = 1
         /\ Kind(raised) = "UsernameTaken"
         /\ Logged(raised)
         /\ Ended => Kind(exc) = (IF DisconnectRaised THEN "Unexpected" ELSE "UsernameTaken")

\* C6: a FloodWaitError of any step's remote call leaves the top level of
\* setup_safeguard_system as the kind RateLimited, carrying the wait in
\* seconds.
C6_RateLimited ==
    Aborted => \A i \in 1..Len(calls) :
        calls[i].res = "FloodWaitError"
          => /\ Kind(raised) = "RateLimited"
             /\ raised.msg[2] = ToString(calls[i].seconds)

\* C7: every forwarded message was written by the bot and posted after the
\* setup command.
C7_ForwardsBotReply ==
    \A i \in 1..Len(forwarded) :
        /\ forwarded[i].author = "bot"
        /\ \E j \in 1..Len(messages) :
              /\ messages[j].author = "self"
              /\ j < forwarded[i].id

\* every step of the run, and the release, returned successfully
AllSucceeded ==
    /\ Len(private_invite) = 1
    /\ \A i \in 1..Len(calls) : calls[i].res \in Returned

\* C8 as stated: a run in which everything succeeded and that found the
\* message on its 2nd check has one forward, one invite link, 9 INFO entries
\* and no ERROR entry.
C8_NineInfoEntries ==
    (pc = "done" /\ AllSucceeded /\ Len(checks) = 2)
      => /\ Len(forwarded) = 1
         /\ Len(private_invite) = 1
         /\ InfoCount = 9
         /\ ErrorCount = 0

\* C8 amended: a run in which everything succeeded has one forward, one
\* invite link, 11 INFO entries and no ERROR entry, whichever check found
\* the message.
C8_ElevenInfoEntries ==
    (pc = "done" /\ AllSucceeded)
      => /\ Len(forwarded) = 1
         /\ Len(private_invite) = 1
         /\ InfoCount = 11
         /\ ErrorCount = 0
         /\ exc = NoExc
         /\ Names(StepCalls) = Order(Len(checks))

C8_Witness ==
    /\ pc = "done"
    /\ AllSucceeded
    /\ Len(checks) = 2
    /\ forwarded = <<checks[2].seen>>
    /\ forwarded[1].author = "bot"
    /\ InfoCount = 11

\* C9 as stated: every failure of a run (of a step, or of the release) has
\* an ERROR entry in the log and is printed to the operator.
C9_ErrorsLoggedAndPrinted ==
    pc = "done"
      => /\ raised # NoExc => (Logged(raised) /\ Printed(raised))
         /\ exc # NoExc => (Logged(exc) /\ Printed(exc))

\* What holds of C9: every failure has an ERROR entry in the log, and every
\* failed run prints one error message: that of the exception that left the
\* coroutine, which is the failure of the release when there is one.
C9_ErrorsLoggedOnePrinted ==
    /\ Aborted => Logged(raised)
    /\ pc = "done"
         => /\ exc # NoExc => (Logged(exc) /\ Printed(exc))
            /\ (raised # NoExc /\ ~DisconnectRaised) => (exc = raised /\ Printed(raised))
            /\ (raised # NoExc \/ DisconnectRaised \/ private_invite = <<>>)
                 => (exc # NoExc /\ ErrorCount >= 1)

Unauthorized ==
    \E i \in 1..Len(calls) :
        calls[i].name = "is_user_authorized" /\ calls[i].res = "false"

\* C10 as stated: an unauthorized session makes the run fail with
\* NotAuthorized right after the check: nothing is created or sent, and the
\* session is released.
C10_NotAuthorized ==
    Unauthorized
      => /\ pc \in {"finally", "main", "done"}
         /\ StepCalls[Len(StepCalls)].name = "is_user_authorized"
         /\ ~Called("create_group") /\ ~Called("create_channel")
         /\ ~Called("send_message")
         /\ messages = <<>>
         /\ Ended => Disconnects = 1
         /\ Ended => Kind(exc) = "NotAuthorized"

\* What holds of C10: NotAuthorized is what the authorization check yields,
\* and what the run fails with when disconnect returns; when disconnect
\* raises, the run fails with its exception.
C10_NotAuthorizedUnlessTeardownFails ==
    Unauthorized
      => /\ pc \in {"finally", "main", "done"}
         /\ StepCalls[Len(StepCalls)].name = "is_user_authorized"
         /\ ~Called("create_group") /\ ~Called("create_channel")
         /\ ~Called("send_message")
         /\ messages = <<>>
         /\ Ended => Disconnects = 1
         /\ Kind(raised) = "NotAuthorized"
         /\ Ended => Kind(exc) = (IF DisconnectRaised THEN "Unexpected" ELSE "NotAuthorized")

====
